---- MODULE Spec2Model ----
(***************************************************************************)
(* Model of weather_data_pipeline.py: the cleaning pipeline that main()    *)
(* runs over one DataFrame (clean_dates, clean_weather_conditions,         *)
(* handle_missing_values, add_fahrenheit_column, round_numeric_columns),   *)
(* the save of the transformed data and the top-5 city report.             *)
(*                                                                         *)
(* Representation.                                                         *)
(*  - A string is a sequence of one-character strings, so that the regular *)
(*    expressions, zfill, lower and capitalize are computed character by   *)
(*    character.  A missing string cell (NaN) is the sequence NaS.         *)
(*  - A float is an exact rational [n, d] with d > 0 in lowest terms; NaN  *)
(*    is [n |-> 0, d |-> 0].  Binary floating point error is not modelled. *)
(*  - A DataFrame is a sequence of rows; the field idx of a row is its     *)
(*    pandas index label, which filtering keeps.                           *)
(***************************************************************************)
EXTENDS Integers, Sequences, FiniteSets, TLC

\* df        the DataFrame of main()
\* pc        the place main() has reached: "ingested", "dates", "weather",
\*           "imputed", "fahrenheit", "rounded", "saved", "done", or "crashed"
\* run       1 for the run on the data file, 2 for a run on the file run 1 wrote
\* wc_dtype  the dtype read_csv gave the column weather_condition
\* hist      df as ingested and after each stage of the current run
\* output1   the transformed data the first run wrote
\* report    top_cities, the Series generate_city_temperature_report returns
\* status    "running", "success" (main() printed that it completed), "error"
VARIABLES df, pc, run, wc_dtype, hist, output1, report, status

vars == <<df, pc, run, wc_dtype, hist, output1, report, status>>

(***************************************************************************)
(* Characters and strings                                                  *)
(***************************************************************************)
DigitChars == <<"0", "1", "2", "3", "4", "5", "6", "7", "8", "9">>

LowerChars == <<"a", "b", "c", "d", "e", "f", "g", "h", "i", "j", "k", "l", "m",
                "n", "o", "p", "q", "r", "s", "t", "u", "v", "w", "x", "y", "z">>

UpperChars == <<"A", "B", "C", "D", "E", "F", "G", "H", "I", "J", "K", "L", "M",
                "N", "O", "P", "Q", "R", "S", "T", "U", "V", "W", "X", "Y", "Z">>

Range(s) == {s[i] : i \in DOMAIN s}

\* \d of the re module, for the ASCII digits.
IsDigit(c) == c \in Range(DigitChars)

DigitVal(c) == (CHOOSE i \in DOMAIN DigitChars : DigitChars[i] = c) - 1

AllDigits(s) == \A i \in DOMAIN s : IsDigit(s[i])

\* int() of a string of digits.
RECURSIVE StrToInt(_)
StrToInt(s) ==
    IF s = <<>> THEN 0
    ELSE 10 * StrToInt(SubSeq(s, 1, Len(s) - 1)) + DigitVal(s[Len(s)])

\* The decimal digits of a natural number, at least `width` of them
\* (strftime's zero-padded %Y, %m and %d).
RECURSIVE IntToStr(_, _)
IntToStr(k, width) ==
    IF k < 10 /\ width <= 1 THEN <<DigitChars[k + 1]>>
    ELSE IntToStr(k \div 10, width - 1) \o <<DigitChars[(k % 10) + 1]>>

\* str.zfill(width) of a string of digits.
RECURSIVE zfill(_, _)
zfill(s, width) == IF Len(s) >= width THEN s ELSE zfill(<<"0">> \o s, width)

\* The cell of a missing string value (NaN / None).
NaS == <<"NaN">>

\* The cell of a date read as a number, not as a string.
IntCell == <<"int64">>

\* isinstance(x, str) and not pd.isna(x)
IsStr(x) == x # NaS /\ x # IntCell

CharLower(c) ==
    IF \E i \in DOMAIN UpperChars : UpperChars[i] = c
    THEN LowerChars[CHOOSE i \in DOMAIN UpperChars : UpperChars[i] = c]
    ELSE c

CharUpper(c) ==
    IF \E i \in DOMAIN LowerChars : LowerChars[i] = c
    THEN UpperChars[CHOOSE i \in DOMAIN LowerChars : LowerChars[i] = c]
    ELSE c

\* Series.str.lower(): NaN stays NaN.
str_lower(s) == IF s = NaS THEN NaS ELSE [i \in DOMAIN s |-> CharLower(s[i])]

\* Series.str.capitalize(): first character upper case, the rest lower case.
str_capitalize(s) ==
    IF s = NaS THEN NaS
    ELSE [i \in DOMAIN s |-> IF i = 1 THEN CharUpper(s[i]) ELSE CharLower(s[i])]

(***************************************************************************)
(* Floats as exact rationals                                               *)
(***************************************************************************)
NaN == [n |-> 0, d |-> 0]

IsNa(x) == x.d = 0

Abs(k) == IF k < 0 THEN -k ELSE k

RECURSIVE Gcd(_, _)
Gcd(a, b) == IF b = 0 THEN a ELSE Gcd(b, a % b)

\* n/d in lowest terms, d > 0.
Rat(n, d) == LET g == Gcd(Abs(n), d) IN [n |-> n \div g, d |-> d \div g]

RAdd(x, y) ==
    IF IsNa(x) \/ IsNa(y) THEN NaN ELSE Rat(x.n * y.d + y.n * x.d, x.d * y.d)

RMulInt(x, k) == IF IsNa(x) THEN NaN ELSE Rat(x.n * k, x.d)

RDivInt(x, k) == IF IsNa(x) \/ k = 0 THEN NaN ELSE Rat(x.n, x.d * k)

\* x > y for two numbers (False when either is NaN, as for floats).
RGreater(x, y) == ~IsNa(x) /\ ~IsNa(y) /\ x.n * y.d > y.n * x.d

\* bool(x) of a float: False for 0.0 only (NaN is truthy).
Truthy(x) == IsNa(x) \/ x.n # 0

\* The integer nearest to n/d, halves to the even one (numpy's rint).
RoundHalfEven(n, d) ==
    LET q == (2 * n + d) \div (2 * d)
    IN  IF (2 * n + d) % (2 * d) = 0 /\ q % 2 = 1 THEN q - 1 ELSE q

\* Series.round(2): NaN stays NaN.
round2(x) == IF IsNa(x) THEN NaN ELSE Rat(RoundHalfEven(100 * x.n, x.d), 100)

(***************************************************************************)
(* clean_dates                                                             *)
(***************************************************************************)
NoMatch == [ok |-> FALSE, g1 |-> <<>>, g2 |-> <<>>, g3 |-> <<>>]

\* `$` matches at the end of the string and also just before a newline that
\* ends it: the text the pattern has to cover.
DollarBody(s) ==
    IF Len(s) > 0 /\ s[Len(s)] = "\n" THEN SubSeq(s, 1, Len(s) - 1) ELSE s

\* ^(\d{l1})sep(\d{l2})sep(\d{4})$ with the two short groups of the given
\* lengths.
MatchLens(s, sep, l1, l2) ==
    LET b == DollarBody(s)
        fits(t) == /\ Len(t) = l1 + l2 + 6
                   /\ AllDigits(SubSeq(t, 1, l1))
                   /\ t[l1 + 1] = sep
                   /\ AllDigits(SubSeq(t, l1 + 2, l1 + l2 + 1))
                   /\ t[l1 + l2 + 2] = sep
                   /\ AllDigits(SubSeq(t, l1 + l2 + 3, l1 + l2 + 6))
        groups(t) == [ok |-> TRUE,
                      g1 |-> SubSeq(t, 1, l1),
                      g2 |-> SubSeq(t, l1 + 2, l1 + l2 + 1),
                      g3 |-> SubSeq(t, l1 + l2 + 3, l1 + l2 + 6)]
    IN  IF fits(s) THEN groups(s)
        ELSE IF fits(b) THEN groups(b)
        ELSE NoMatch

\* re.match(r'^(\d{1,2})<sep>(\d{1,2})<sep>(\d{4})$', s): the greedy \d{1,2}
\* takes two digits first and backtracks to one.
re_match(sep, s) ==
    LET try(l1, l2) == MatchLens(s, sep, l1, l2)
    IN  IF try(2, 2).ok THEN try(2, 2)
        ELSE IF try(2, 1).ok THEN try(2, 1)
        ELSE IF try(1, 2).ok THEN try(1, 2)
        ELSE try(1, 1)

\* A formatter that takes the first group for the day.
formatter_day_first(m) == m.g3 \o <<"-">> \o zfill(m.g2, 2) \o <<"-">> \o zfill(m.g1, 2)

\* The lambda of every pattern: f"{m.group(3)}-{m.group(1).zfill(2)}-{m.group(2).zfill(2)}"
formatter(m) == m.g3 \o <<"-">> \o zfill(m.g1, 2) \o <<"-">> \o zfill(m.g2, 2)

\* The separators of the three patterns, in the order they are tried.
patterns == <<"/", "-", ".">>

standardize_date(date_str) ==
    IF ~IsStr(date_str) THEN NaS
    ELSE IF re_match(patterns[1], date_str).ok
         THEN formatter(re_match(patterns[1], date_str))
    ELSE IF re_match(patterns[2], date_str).ok
         THEN formatter(re_match(patterns[2], date_str))
    ELSE IF re_match(patterns[3], date_str).ok
         THEN formatter(re_match(patterns[3], date_str))
    ELSE NaS

NaT == [y |-> 0, m |-> 0, d |-> 0]

IsLeap(y) == (y % 4 = 0 /\ y % 100 # 0) \/ y % 400 = 0

\* The days of a month with every fourth year a leap year.
DaysInMonth_julian(y, m) ==
    IF m = 2 THEN (IF y % 4 = 0 THEN 29 ELSE 28)
    ELSE IF m \in {4, 6, 9, 11} THEN 30
    ELSE 31

DaysInMonth(y, m) ==
    IF m = 2 THEN (IF IsLeap(y) THEN 29 ELSE 28)
    ELSE IF m \in {4, 6, 9, 11} THEN 30
    ELSE 31

\* (y, m, d) before or equal to (y2, m2, d2).
DateLeq(a, b) ==
    \/ a.y < b.y
    \/ a.y = b.y /\ a.m < b.m
    \/ a.y = b.y /\ a.m = b.m /\ a.d <= b.d

\* The midnights a datetime64[ns] Timestamp can hold:
\* Timestamp.min is 1677-09-21 00:12:43.145224193 and Timestamp.max is
\* 2262-04-11 23:47:16.854775807.
TimestampFirstDay == [y |-> 1677, m |-> 9, d |-> 22]

TimestampLastDay == [y |-> 2262, m |-> 4, d |-> 11]

\* pd.to_datetime(s, errors='coerce') of one YYYY-MM-DD string: the date, or
\* NaT when the string is no calendar date (the month is read from the second
\* group, the day from the third) or the date is out of the Timestamp bounds.
to_datetime(s) ==
    IF ~(/\ Len(s) = 10
         /\ AllDigits(SubSeq(s, 1, 4)) /\ s[5] = "-"
         /\ AllDigits(SubSeq(s, 6, 7)) /\ s[8] = "-"
         /\ AllDigits(SubSeq(s, 9, 10)))
    THEN NaT
    ELSE LET t == [y |-> StrToInt(SubSeq(s, 1, 4)),
                   m |-> StrToInt(SubSeq(s, 6, 7)),
                   d |-> StrToInt(SubSeq(s, 9, 10))]
         IN  IF /\ t.m \in 1..12
                /\ t.d \in 1..DaysInMonth(t.y, t.m)
                /\ DateLeq(TimestampFirstDay, t)
                /\ DateLeq(t, TimestampLastDay)
             THEN t
             ELSE NaT

\* Series.dt.strftime('%Y-%m-%d')
strftime(t) ==
    IntToStr(t.y, 4) \o <<"-">> \o IntToStr(t.m, 2) \o <<"-">> \o IntToStr(t.d, 2)

\* df.dropna(subset=['date'])
dropna_date(d) == SelectSeq(d, LAMBDA r : r.date # NaS)

clean_dates(d) ==
    LET d1 == dropna_date(d)
        \* rows with the column standardized_date
        d2 == [i \in DOMAIN d1 |->
                 [row |-> d1[i], sd |-> standardize_date(d1[i].date)]]
        d3 == SelectSeq(d2, LAMBDA x : x.sd # NaS)
        d4 == [i \in DOMAIN d3 |->
                 [row |-> d3[i].row, ts |-> to_datetime(d3[i].sd)]]
        d5 == SelectSeq(d4, LAMBDA x : x.ts # NaT)
    IN  [i \in DOMAIN d5 |-> [d5[i].row EXCEPT !.date = strftime(d5[i].ts)]]

(***************************************************************************)
(* clean_weather_conditions                                                *)
(***************************************************************************)
Unknown == <<"U", "n", "k", "n", "o", "w", "n">>

Null == <<"N", "u", "l", "l">>

NULL == <<"N", "U", "L", "L">>

\* A replace that knows 'NULL' only.
replace_null_upper_only(s) == IF s = NULL THEN NaS ELSE s

\* Series.replace({'Null': np.nan, 'NULL': np.nan})
replace_null(s) == IF s = Null \/ s = NULL THEN NaS ELSE s

\* df[~((df['weather_condition'] == 'Unknown') | df['weather_condition'].isna())]
filter_unknown(d) ==
    SelectSeq(d, LAMBDA r : ~(r.weather_condition = Unknown
                              \/ r.weather_condition = NaS))

clean_weather_conditions(d) ==
    filter_unknown(
        [i \in DOMAIN d |->
           [d[i] EXCEPT !.weather_condition =
                replace_null(str_capitalize(str_lower(d[i].weather_condition)))]])

(***************************************************************************)
(* handle_missing_values                                                   *)
(***************************************************************************)
RECURSIVE SumCol(_, _)
SumCol(d, col) ==
    IF d = <<>> THEN [n |-> 0, d |-> 1]
    ELSE RAdd(d[1][col], SumCol(Tail(d), col))

\* Series.mean(): the mean of the values that are not NaN, NaN if there is none.
mean(d, col) ==
    LET present == SelectSeq(d, LAMBDA r : ~IsNa(r[col]))
    IN  RDivInt(SumCol(present, col), Len(present))

\* df['city'].unique()
unique_cities(d) == {d[i].city : i \in DOMAIN d}

\* df.groupby('city')[col].mean()
groupby_city_mean(d, col) ==
    [c \in unique_cities(d) |-> mean(SelectSeq(d, LAMBDA r : r.city = c), col)]

\* if city_avg.get(city) and not pd.isna(city_avg.get(city))
city_avg_usable(avg) == Truthy(avg) /\ ~IsNa(avg)

\* The loop over the cities: the missing values of a city whose average
\* passes the test become that average.
fill_city_avg(d, col) ==
    LET city_avg == groupby_city_mean(d, col)
    IN  [i \in DOMAIN d |->
           IF IsNa(d[i][col]) /\ city_avg_usable(city_avg[d[i].city])
           THEN [d[i] EXCEPT ![col] = city_avg[d[i].city]]
           ELSE d[i]]

\* A fillna whose result is not assigned to the column.
fillna_unassigned(d, col, value) == d

\* Series.fillna(value): NaN where the value itself is NaN.
fillna(d, col, value) ==
    [i \in DOMAIN d |-> IF IsNa(d[i][col]) THEN [d[i] EXCEPT ![col] = value] ELSE d[i]]

\* The global average is taken from the column as the city loop left it.
fill_column(d, col) ==
    LET filled == fill_city_avg(d, col)
        global_avg == mean(filled, col)
    IN  fillna(filled, col, global_avg)

\* Rows with a missing value dropped, not filled.
handle_missing_values_dropna(d) ==
    SelectSeq(d, LAMBDA r : \A col \in {"temperature_celsius", "humidity_percent",
                                         "wind_speed_kph"} : ~IsNa(r[col]))

handle_missing_values(d) ==
    fill_column(fill_column(fill_column(d, "temperature_celsius"),
                            "humidity_percent"),
                "wind_speed_kph")

(***************************************************************************)
(* add_fahrenheit_column, round_numeric_columns                            *)
(***************************************************************************)
\* C * 9/5 + 32
to_fahrenheit(c) == RAdd(RDivInt(RMulInt(c, 9), 5), [n |-> 32, d |-> 1])

add_fahrenheit_column(d) ==
    [i \in DOMAIN d |->
       [d[i] EXCEPT !.temperature_fahrenheit = to_fahrenheit(d[i].temperature_celsius)]]

round_numeric_columns(d) ==
    [i \in DOMAIN d |->
       [d[i] EXCEPT !.temperature_celsius = round2(d[i].temperature_celsius),
                    !.temperature_fahrenheit = round2(d[i].temperature_fahrenheit),
                    !.humidity_percent = round2(d[i].humidity_percent),
                    !.wind_speed_kph = round2(d[i].wind_speed_kph)]]

(***************************************************************************)
(* generate_city_temperature_report                                        *)
(***************************************************************************)
\* df.groupby('city')['temperature_celsius'].mean().round(2)
city_avg_temp(d) ==
    LET avg == groupby_city_mean(d, "temperature_celsius")
    IN  [c \in DOMAIN avg |-> round2(avg[c])]

\* sort_values(ascending=False): every order of the cities in which no city
\* comes before one with a greater average and NaN averages come last.  The
\* order among equal averages is the sorting algorithm's.
RECURSIVE sort_values_desc(_, _)
sort_values_desc(S, avg) ==
    IF S = {} THEN {<<>>}
    ELSE LET first == {c \in S : \A c2 \in S :
                          /\ ~RGreater(avg[c2], avg[c])
                          /\ (IsNa(avg[c]) => IsNa(avg[c2]))}
         IN  UNION {{<<c>> \o t : t \in sort_values_desc(S \ {c}, avg)} : c \in first}

\* A head that cuts nothing.
head_all(order, n) == order

\* Series.head(n)
head(order, n) == SubSeq(order, 1, IF Len(order) < n THEN Len(order) ELSE n)

\* The number of cities of the report: head(5).
TopN == 5

\* The Series top_cities the function can return, as (city, temp) pairs.
top_cities_outcomes(d) ==
    LET avg == city_avg_temp(d)
    IN  {[i \in DOMAIN o |-> [city |-> o[i], temp |-> avg[o[i]]]] :
            o \in {head(s, TopN) : s \in sort_values_desc(DOMAIN avg, avg)}}

(***************************************************************************)
(* The files: to_csv of the transformed data, read_csv of a data file      *)
(***************************************************************************)
\* The strings read_csv takes for a missing value (its default na_values).
na_values ==
    { <<>>,
      <<"#", "N", "/", "A">>,
      <<"#", "N", "/", "A", " ", "N", "/", "A">>,
      <<"#", "N", "A">>,
      <<"-", "1", ".", "#", "I", "N", "D">>,
      <<"-", "1", ".", "#", "Q", "N", "A", "N">>,
      <<"-", "N", "a", "N">>,
      <<"-", "n", "a", "n">>,
      <<"1", ".", "#", "I", "N", "D">>,
      <<"1", ".", "#", "Q", "N", "A", "N">>,
      <<"<", "N", "A", ">">>,
      <<"N", "/", "A">>,
      <<"N", "A">>,
      <<"N", "U", "L", "L">>,
      <<"N", "a", "N">>,
      <<"N", "o", "n", "e">>,
      <<"n", "/", "a">>,
      <<"n", "a", "n">>,
      <<"n", "u", "l", "l">> }

\* A string cell written by to_csv and read back by read_csv.
read_str_cell(s) == IF s = NaS \/ s \in na_values THEN NaS ELSE s

\* pd.read_csv of the file df.to_csv(path, index=False) wrote: the rows in
\* their order under a new RangeIndex; a float is written with repr and read
\* back as the same float, NaN as the empty field.
read_csv(rows) ==
    [i \in DOMAIN rows |->
       [rows[i] EXCEPT !.idx = i - 1,
                       !.date = read_str_cell(rows[i].date),
                       !.weather_condition = read_str_cell(rows[i].weather_condition)]]

\* The dtype read_csv gives the column weather_condition: float64 when the
\* file has rows and every cell of the column is empty, object otherwise.
weather_dtype(d) ==
    IF Len(d) > 0 /\ \A i \in DOMAIN d : d[i].weather_condition = NaS
    THEN "float64"
    ELSE "object"

(***************************************************************************)
(* The run of main()                                                       *)
(***************************************************************************)
NoOutput == [written |-> FALSE, rows |-> <<>>]

\* df = clean_dates(df)
CleanDates ==
    /\ pc = "ingested"
    /\ df' = clean_dates(df)
    /\ hist' = Append(hist, df')
    /\ pc' = "dates"
    /\ UNCHANGED <<run, wc_dtype, output1, report, status>>

\* df = clean_weather_conditions(df).  The accessor .str of a float64 column
\* raises AttributeError, which ends main().
CleanWeatherConditions ==
    /\ pc = "dates"
    /\ IF wc_dtype = "float64"
       THEN /\ pc' = "crashed"
            /\ status' = "error"
            /\ UNCHANGED <<df, hist>>
       ELSE /\ df' = clean_weather_conditions(df)
            /\ hist' = Append(hist, df')
            /\ pc' = "weather"
            /\ UNCHANGED status
    /\ UNCHANGED <<run, wc_dtype, output1, report>>

\* df = handle_missing_values(df)
HandleMissingValues ==
    /\ pc = "weather"
    /\ df' = handle_missing_values(df)
    /\ hist' = Append(hist, df')
    /\ pc' = "imputed"
    /\ UNCHANGED <<run, wc_dtype, output1, report, status>>

\* df = add_fahrenheit_column(df)
AddFahrenheitColumn ==
    /\ pc = "imputed"
    /\ df' = add_fahrenheit_column(df)
    /\ hist' = Append(hist, df')
    /\ pc' = "fahrenheit"
    /\ UNCHANGED <<run, wc_dtype, output1, report, status>>

\* df = round_numeric_columns(df)
RoundNumericColumns ==
    /\ pc = "fahrenheit"
    /\ df' = round_numeric_columns(df)
    /\ hist' = Append(hist, df')
    /\ pc' = "rounded"
    /\ UNCHANGED <<run, wc_dtype, output1, report, status>>

\* df.to_csv(output_path, index=False); output1 keeps the file of the first run.
SaveTransformed ==
    /\ pc = "rounded"
    /\ output1' = IF run = 1 THEN [written |-> TRUE, rows |-> df] ELSE output1
    /\ pc' = "saved"
    /\ UNCHANGED <<df, run, wc_dtype, hist, report, status>>

\* top_cities = generate_city_temperature_report(df), then the chart and
\* "Pipeline completed successfully!".
GenerateCityTemperatureReport ==
    /\ pc = "saved"
    /\ \E top \in top_cities_outcomes(df) : report' = top
    /\ pc' = "done"
    /\ status' = "success"
    /\ UNCHANGED <<df, run, wc_dtype, hist, output1>>

\* main() run again with the transformed data of the first run as its
\* weather_data.csv.
RerunOnOutput ==
    /\ pc = "done"
    /\ run = 1
    /\ df' = read_csv(output1.rows)
    /\ wc_dtype' = weather_dtype(df')
    /\ hist' = <<df'>>
    /\ run' = 2
    /\ pc' = "ingested"
    /\ report' = <<>>
    /\ status' = "running"
    /\ UNCHANGED output1

Next ==
    \/ CleanDates
    \/ CleanWeatherConditions
    \/ HandleMissingValues
    \/ AddFahrenheitColumn
    \/ RoundNumericColumns
    \/ SaveTransformed
    \/ GenerateCityTemperatureReport
    \/ RerunOnOutput

(***************************************************************************)
(* The data files main() is run on: what ingest_data can return.  Every    *)
(* family is a set of DataFrames of at least one row whose numeric columns *)
(* hold floats or NaN and whose column city has no missing value.          *)
(***************************************************************************)
Num(k) == [n |-> k, d |-> 1]

Row(i, city, date, wc, t, h, w) ==
    [idx |-> i, city |-> city, date |-> date, weather_condition |-> wc,
     temperature_celsius |-> t, humidity_percent |-> h, wind_speed_kph |-> w,
     temperature_fahrenheit |-> NaN]

CityNames == <<"A", "B", "C", "D", "E", "F", "G", "H", "I">>

\* "3/15/2023"
GoodDate == <<"3", "/", "1", "5", "/", "2", "0", "2", "3">>

\* "13/45/2023"
BadDate == <<"1", "3", "/", "4", "5", "/", "2", "0", "2", "3">>

Sunny == <<"s", "u", "n", "n", "y">>

\* "15/03/2023", "31/02/2023" and "03/15/2023"
Date15_03_2023 == <<"1", "5", "/", "0", "3", "/", "2", "0", "2", "3">>

Date31_02_2023 == <<"3", "1", "/", "0", "2", "/", "2", "0", "2", "3">>

Date03_15_2023 == <<"0", "3", "/", "1", "5", "/", "2", "0", "2", "3">>

\* Six cities of one row each, with the temperatures 30, 25, 28, 10, 5, 40.
SixCities ==
    LET t == <<30, 25, 28, 10, 5, 40>>
    IN  [i \in 1..6 |->
           [idx |-> i - 1, city |-> CityNames[i], date |-> GoodDate,
            weather_condition |-> Sunny, temperature_celsius |-> Num(t[i]),
            humidity_percent |-> Num(50), wind_speed_kph |-> Num(7),
            temperature_fahrenheit |-> NaN]]

\* Rows of the date family, of the weather family, of the imputation family
\* and of the report family; cities of the imputation family.
MaxDateRows == 2

MaxWeatherRows == 3

MaxImputeRows == 4

MaxImputeCities == 3

MaxReportRows == 7

\* Rows of the report family that hold the greater of their two temperatures.
MaxRaisedTemps == 2

MaxMixedRows == 3

MaxMixedCities == 2

MonthTokens ==
    {IntToStr(k, w) : k \in {0, 2, 4, 9, 12, 13}, w \in {1, 2}}
        \cup {IntToStr(2023, 4), <<>>, <<"1", "a">>}

DayTokens ==
    {IntToStr(k, w) : k \in {0, 5, 11, 12, 21, 22, 28, 29, 30, 31, 32}, w \in {1, 2}}
        \cup {<<"1", "5", "0">>}

YearTokens ==
    {IntToStr(y, 4) : y \in {1500, 1677, 1900, 2000, 2023, 2024, 2262, 2263}}
        \cup {<<"2", "3">>, <<"2", "0", "2">>, <<"0", "2", "0", "2", "3">>}

SepChars == {"/", "-", ".", " ", ":"}

\* The date cells of the date family.
DateInputs ==
    {f \o <<"/">> \o g \o <<"/">> \o y :
        f \in MonthTokens, g \in DayTokens, y \in YearTokens}
    \cup {f \o <<s1>> \o g \o <<s2>> \o y \o t :
        f \in {<<"2">>, <<"1", "2">>}, g \in {<<"5">>, <<"2", "9">>},
        y \in {IntToStr(2024, 4)}, s1 \in SepChars, s2 \in SepChars,
        t \in {<<>>, <<"\n">>, <<" ">>}}
    \cup {IntToStr(2023, 4) \o <<s>> \o IntToStr(3, 2) \o <<s>> \o IntToStr(15, 2) :
        s \in SepChars}
    \cup {<<" ">> \o GoodDate, <<>>, NaS, IntCell}
    \cup {Date15_03_2023, Date31_02_2023, Date03_15_2023}

DateInputsFew == {GoodDate, BadDate, NaS}

WeatherInputs ==
    { Sunny,
      <<"S", "U", "N", "N", "Y">>,
      <<"S", "u", "n", "n", "y">>,
      <<"r", "A", "i", "n">>,
      <<"u", "n", "k", "n", "o", "w", "n">>,
      <<"U", "N", "K", "N", "O", "W", "N">>,
      <<"U", "n", "k", "n", "o", "w", "n", "s">>,
      <<"N", "u", "l", "l">>,
      <<"n", "U", "L", "l">>,
      <<"4", "c">>,
      NaS }

ValueInputs == {NaN, Num(0), Num(10)}

\* The temperatures of row i of the report family: i or i + 1 hundredths.
ReportTemps(i) == <<Rat(i, 100), Rat(i + 1, 100)>>

NumericColumns == {"temperature_celsius", "humidity_percent", "wind_speed_kph"}

SeqMax(s) == IF s = <<>> THEN 0 ELSE CHOOSE m \in Range(s) : \A x \in Range(s) : x <= m

Min2(a, b) == IF a < b THEN a ELSE b

\* The city columns of n rows over at most k cities, up to a renaming of the
\* cities: row 1 is city 1 and a row's city is an earlier row's or the next
\* new one.
RECURSIVE CityColumns(_, _)
CityColumns(n, k) ==
    IF n = 0 THEN {<<>>}
    ELSE UNION {{Append(s, c) : c \in 1..Min2(SeqMax(s) + 1, k)} :
                  s \in CityColumns(n - 1, k)}

\* The same with the rows of a city next to each other.
GroupedCityColumns(n) ==
    {s \in CityColumns(n, n) : \A i \in 1..(n - 1) : s[i] <= s[i + 1]}

Start(d) ==
    /\ df = d
    /\ pc = "ingested"
    /\ run = 1
    /\ wc_dtype = weather_dtype(d)
    /\ hist = <<d>>
    /\ output1 = NoOutput
    /\ report = <<>>
    /\ status = "running"

\* One row with any date of DateInputs among rows with a few dates.
InitDates ==
    \E n \in 1..MaxDateRows : \E k \in 1..n : \E x \in DateInputs :
    \E few \in [1..n -> DateInputsFew] :
        Start([i \in 1..n |->
                 Row(i - 1, CityNames[1], IF i = k THEN x ELSE few[i], Sunny,
                     Num(10), Num(50), Num(7))])

InitWeather ==
    \E n \in 1..MaxWeatherRows :
    \E wc \in [1..n -> WeatherInputs] :
        Start([i \in 1..n |->
                 Row(i - 1, CityNames[1], GoodDate, wc[i], Num(10), Num(50), Num(7))])

\* One numeric column takes any values, the two others hold a number.
InitImpute ==
    \E n \in 1..MaxImputeRows : \E col \in NumericColumns :
    \E cs \in CityColumns(n, MaxImputeCities) : \E v \in [1..n -> ValueInputs] :
        Start([i \in 1..n |->
                 [Row(i - 1, CityNames[cs[i]], GoodDate, Sunny,
                      Num(20), Num(50), Num(7)) EXCEPT ![col] = v[i]]])

\* The temperatures all present or all missing.
InitReport ==
    \/ \E n \in 1..MaxReportRows : \E cs \in GroupedCityColumns(n) :
       \E t \in {[i \in 1..n |-> ReportTemps(i)[IF i \in up THEN 2 ELSE 1]] :
                    up \in {u \in SUBSET (1..n) : Cardinality(u) <= MaxRaisedTemps}}
                 \cup {[i \in 1..n |-> NaN]} :
           Start([i \in 1..n |->
                    Row(i - 1, CityNames[cs[i]], GoodDate, Sunny, t[i], Num(50), Num(7))])
    \/ Start(SixCities)

\* Rows that the two filters drop among rows with missing temperatures.
InitMixed ==
    \E n \in 1..MaxMixedRows : \E cs \in CityColumns(n, MaxMixedCities) :
    \E dt \in [1..n -> {GoodDate, BadDate}] :
    \E wc \in [1..n -> {Sunny, <<"u", "n", "k", "n", "o", "w", "n">>}] :
    \E t \in [1..n -> {NaN, [n |-> -1, d |-> 8]}] :
        Start([i \in 1..n |->
                 Row(i - 1, CityNames[cs[i]], dt[i], wc[i], t[i], Num(50), Num(7))])

Init == InitDates \/ InitWeather \/ InitImpute \/ InitReport \/ InitMixed

Spec == Init /\ [][Next]_vars

SpecDates == InitDates /\ [][Next]_vars

SpecWeather == InitWeather /\ [][Next]_vars

SpecImpute == InitImpute /\ [][Next]_vars

SpecReport == InitReport /\ [][Next]_vars

SpecMixed == InitMixed /\ [][Next]_vars

(***************************************************************************)
(* Properties.  hist holds the DataFrame main() was given (hist[1]) and    *)
(* the DataFrame after clean_dates (2), clean_weather_conditions (3),      *)
(* handle_missing_values (4), add_fahrenheit_column (5) and                *)
(* round_numeric_columns (6) of the current run.                           *)
(***************************************************************************)
\* The rows without their index labels.
Cells(d) == [i \in DOMAIN d |-> [d[i] EXCEPT !.idx = 0]]

Labels(d) == {d[i].idx : i \in DOMAIN d}

RowAt(d, label) == d[CHOOSE i \in DOMAIN d : d[i].idx = label]

PosOf(d, label) == CHOOSE i \in DOMAIN d : d[i].idx = label

Present(d, col) == \E i \in DOMAIN d : ~IsNa(d[i][col])

CityPresent(d, col, c) == \E i \in DOMAIN d : d[i].city = c /\ ~IsNa(d[i][col])

\* The mean of the values of col that d holds, over the rows of city c.
MeanOfPresent(d, col, c) ==
    LET rows == {i \in DOMAIN d : d[i].city = c /\ ~IsNa(d[i][col])}
        total[S \in SUBSET rows] ==
            IF S = {} THEN Num(0)
            ELSE LET i == CHOOSE i \in S : TRUE
                 IN  RAdd(d[i][col], total[S \ {i}])
    IN  RDivInt(total[rows], Cardinality(rows))

\* The mean of all the values of col that d holds.
GlobalMeanOfPresent(d, col) ==
    LET rows == {i \in DOMAIN d : ~IsNa(d[i][col])}
        total[S \in SUBSET rows] ==
            IF S = {} THEN Num(0)
            ELSE LET i == CHOOSE i \in S : TRUE
                 IN  RAdd(d[i][col], total[S \ {i}])
    IN  RDivInt(total[rows], Cardinality(rows))

(* C1: a second run of the pipeline on the output of a first run drops no  *)
(* record and changes no field value: when the second run is done, its     *)
(* DataFrame holds the rows the first run wrote.                           *)
C1_SecondRunIsNoOp ==
    (run = 2 /\ pc = "done") => Cells(df) = Cells(output1.rows)

(* C2: after handle_missing_values, a record that missed a numeric field   *)
(* and whose city had no value for it holds the mean of the values the     *)
(* field had in the stage's input (values substituted from city means do   *)
(* not enter that mean).                                                   *)
C2_GlobalMeanOfOriginalValues ==
    Len(hist) >= 4 =>
        \A col \in NumericColumns : \A i \in DOMAIN hist[3] :
            (IsNa(hist[3][i][col]) /\ ~CityPresent(hist[3], col, hist[3][i].city))
                => hist[4][i][col] = GlobalMeanOfPresent(hist[3], col)

(* C3: after handle_missing_values, a record that missed a numeric field   *)
(* and whose city had at least one value for it holds the mean of the      *)
(* city's values, whatever that mean is, 0 included.                       *)
C3_CityMeanWhateverItsValue ==
    Len(hist) >= 4 =>
        \A col \in NumericColumns : \A i \in DOMAIN hist[3] :
            (IsNa(hist[3][i][col]) /\ CityPresent(hist[3], col, hist[3][i].city))
                => hist[4][i][col] = MeanOfPresent(hist[3], col, hist[3][i].city)

\* "2023-03-15"
Canonical2023_03_15 == <<"2", "0", "2", "3", "-", "0", "3", "-", "1", "5">>

Kept(before, after, i) == before[i].idx \in Labels(after)

(* C4: the record whose date is "15/03/2023" survives clean_dates with the *)
(* date "2023-03-15", and the record whose date is "31/02/2023" is         *)
(* dropped.                                                                *)
C4_ExampleMapping ==
    Len(hist) >= 2 =>
        \A i \in DOMAIN hist[1] :
            /\ hist[1][i].date = Date15_03_2023 =>
                   /\ Kept(hist[1], hist[2], i)
                   /\ RowAt(hist[2], hist[1][i].idx).date = Canonical2023_03_15
            /\ hist[1][i].date = Date31_02_2023 => ~Kept(hist[1], hist[2], i)

(* C4 as amended: the first group is the month, so the record whose date   *)
(* is "15/03/2023" is dropped by clean_dates (15 is no month), as is the   *)
(* one whose date is "31/02/2023"; the record whose date is "03/15/2023"   *)
(* survives with the date "2023-03-15".                                    *)
C4_MonthFirstMapping ==
    Len(hist) >= 2 =>
        \A i \in DOMAIN hist[1] :
            /\ hist[1][i].date = Date15_03_2023 => ~Kept(hist[1], hist[2], i)
            /\ hist[1][i].date = Date31_02_2023 => ~Kept(hist[1], hist[2], i)
            /\ hist[1][i].date = Date03_15_2023 =>
                   /\ Kept(hist[1], hist[2], i)
                   /\ RowAt(hist[2], hist[1][i].idx).date = Canonical2023_03_15

\* clean_dates has run on a DataFrame that holds "15/03/2023" next to a row
\* that it keeps.
C4_Witness ==
    /\ pc = "dates"
    /\ run = 1
    /\ \E i \in DOMAIN hist[1] : hist[1][i].date = Date15_03_2023
    /\ Len(hist[2]) = 1

\* The ways to read s as first<sep>second<sep>year: 1-2 digits, a separator
\* of "/", "-", ".", 1-2 digits, the same separator, 4 digits.
ClaimSplits(s) ==
    {p \in [l1 : 1..2, l2 : 1..2, sep : {"/", "-", "."}] :
        /\ Len(s) = p.l1 + p.l2 + 6
        /\ \A k \in 1..Len(s) :
              IF k = p.l1 + 1 \/ k = p.l1 + p.l2 + 2 THEN s[k] = p.sep
              ELSE s[k] \in {"0", "1", "2", "3", "4", "5", "6", "7", "8", "9"}}

SplitMonth(s, p) == StrToInt(SubSeq(s, 1, p.l1))

SplitDay(s, p) == StrToInt(SubSeq(s, p.l1 + 2, p.l1 + p.l2 + 1))

SplitYear(s, p) == StrToInt(SubSeq(s, p.l1 + p.l2 + 3, p.l1 + p.l2 + 6))

\* A date of the calendar: month 1-12, day of the month, leap years.
IsCalendarDate(y, m, d) ==
    /\ m \in 1..12
    /\ d >= 1
    /\ d <= <<31, 28, 31, 30, 31, 30, 31, 31, 30, 31, 30, 31>>[m]
              + (IF m = 2 /\ (y % 400 = 0 \/ (y % 4 = 0 /\ y % 100 # 0)) THEN 1 ELSE 0)

Pad2(t) == IF Len(t) = 1 THEN <<"0">> \o t ELSE t

\* year-month-day of a split, month and day padded to two digits.
SplitCanonical(s, p) ==
    SubSeq(s, p.l1 + p.l2 + 3, p.l1 + p.l2 + 6) \o <<"-">>
        \o Pad2(SubSeq(s, 1, p.l1)) \o <<"-">>
        \o Pad2(SubSeq(s, p.l1 + 2, p.l1 + p.l2 + 1))

(* C5: clean_dates keeps a record if and only if its date is a string of   *)
(* the form first<sep>second<sep>year (sep one of "/", "-", ".", first and  *)
(* second of 1-2 digits, year of 4 digits) and (month = first, day =        *)
(* second, year) is a date of the calendar; the date of a kept record is    *)
(* year-month-day with month and day padded to two digits.                  *)
C5_KeepsExactlyCalendarDates ==
    Len(hist) >= 2 =>
        \A i \in DOMAIN hist[1] :
            LET s == hist[1][i].date
                good == {p \in ClaimSplits(s) :
                            IsCalendarDate(SplitYear(s, p), SplitMonth(s, p), SplitDay(s, p))}
            IN  /\ Kept(hist[1], hist[2], i) <=> (IsStr(s) /\ good # {})
                /\ Kept(hist[1], hist[2], i) =>
                       \E p \in good :
                           RowAt(hist[2], hist[1][i].idx).date = SplitCanonical(s, p)

\* s without the newline that ends it, if one does.
WithoutFinalNewline(s) ==
    IF Len(s) > 0 /\ s[Len(s)] = "\n" THEN SubSeq(s, 1, Len(s) - 1) ELSE s

\* From 1677-09-22 to 2262-04-11.
InTimestampRange(y, m, d) ==
    /\ 10000 * y + 100 * m + d >= 16770922
    /\ 10000 * y + 100 * m + d <= 22620411

(* C5 as amended: clean_dates keeps a record if and only if its date is a   *)
(* string that, without a newline that may end it, has the form             *)
(* first<sep>second<sep>year and (month = first, day = second, year) is a   *)
(* date of the calendar from 1677-09-22 to 2262-04-11 (the dates a          *)
(* nanosecond Timestamp holds); the date of a kept record is                *)
(* year-month-day with month and day padded to two digits.                  *)
C5_KeepsCalendarDatesInRange ==
    Len(hist) >= 2 =>
        \A i \in DOMAIN hist[1] :
            LET s == hist[1][i].date
                b == WithoutFinalNewline(s)
                good == {p \in ClaimSplits(b) :
                            /\ IsCalendarDate(SplitYear(b, p), SplitMonth(b, p), SplitDay(b, p))
                            /\ InTimestampRange(SplitYear(b, p), SplitMonth(b, p), SplitDay(b, p))}
            IN  /\ Kept(hist[1], hist[2], i) <=> (IsStr(s) /\ good # {})
                /\ Kept(hist[1], hist[2], i) =>
                       \E p \in good :
                           RowAt(hist[2], hist[1][i].idx).date = SplitCanonical(b, p)

\* clean_dates has kept "2/29/2024" as "2024-02-29" and dropped the other row.
C5_Witness ==
    /\ pc = "dates"
    /\ Len(hist[1]) = 2
    /\ Len(hist[2]) = 1
    /\ \E i \in DOMAIN hist[1] :
          /\ hist[1][i].date = <<"2", "/", "2", "9", "/", "2", "0", "2", "4">>
          /\ Kept(hist[1], hist[2], i)
    /\ hist[2][1].date = <<"2", "0", "2", "4", "-", "0", "2", "-", "2", "9">>

\* s with its first character in upper case and the others in lower case.
FirstUpperRestLower(s) ==
    LET at(t, c) == IF \E k \in DOMAIN t : t[k] = c
                    THEN CHOOSE k \in DOMAIN t : t[k] = c ELSE 0
    IN  [i \in DOMAIN s |->
           IF i = 1
           THEN (IF at(LowerChars, s[i]) > 0 THEN UpperChars[at(LowerChars, s[i])] ELSE s[i])
           ELSE (IF at(UpperChars, s[i]) > 0 THEN LowerChars[at(UpperChars, s[i])] ELSE s[i])]

(* C6: every record that survives clean_weather_conditions has a           *)
(* weather_condition that is none of "Unknown", "Null", "NULL", the empty  *)
(* string or missing, and that is the input label with its first letter   *)
(* in upper case and the rest in lower case.                               *)
C6_SurvivorsNormalized ==
    Len(hist) >= 3 =>
        \A j \in DOMAIN hist[3] :
            LET out == hist[3][j].weather_condition
                in == RowAt(hist[2], hist[3][j].idx).weather_condition
            IN  /\ out \notin {Unknown, Null, NULL, <<>>, NaS}
                /\ in # NaS
                /\ out = FirstUpperRestLower(in)

\* Of three rows clean_weather_conditions has kept the one whose label was
\* "rAin", as "Rain".
C6_Witness ==
    /\ pc = "weather"
    /\ Len(hist[2]) = 3
    /\ Len(hist[3]) = 1
    /\ RowAt(hist[2], hist[3][1].idx).weather_condition = <<"r", "A", "i", "n">>
    /\ hist[3][1].weather_condition = <<"R", "a", "i", "n">>

(* C7: after handle_missing_values, a numeric field that some record of    *)
(* the stage's input holds is missing on no record; a field that no record *)
(* of the input holds stays missing on every record; and after             *)
(* add_fahrenheit_column temperature_fahrenheit is missing exactly on the  *)
(* records whose temperature_celsius is missing.                           *)
C7_NoMissingUnlessDegenerate ==
    /\ Len(hist) >= 4 =>
           \A col \in NumericColumns : \A j \in DOMAIN hist[4] :
               IsNa(hist[4][j][col]) <=> ~Present(hist[3], col)
    /\ \A k \in 5..Len(hist) : \A j \in DOMAIN hist[k] :
           IsNa(hist[k][j].temperature_fahrenheit) <=> IsNa(hist[k][j].temperature_celsius)

\* handle_missing_values and add_fahrenheit_column have run on a DataFrame
\* in which a field is missing on every record of one city and held by a
\* record of another.
C7_Witness ==
    /\ pc = "fahrenheit"
    /\ \E col \in NumericColumns : \E i \in DOMAIN hist[3] :
          /\ ~CityPresent(hist[3], col, hist[3][i].city)
          /\ Present(hist[3], col)

\* x rounded to two decimals: the k/100 nearest to x, the even k of two
\* equally near.
NearestHundredth(x) ==
    IF IsNa(x) THEN NaN
    ELSE LET lo == (100 * x.n) \div x.d
             k == CHOOSE k \in {lo, lo + 1} :
                     /\ 2 * Abs(100 * x.n - k * x.d) <= x.d
                     /\ (2 * Abs(100 * x.n - k * x.d) = x.d => k % 2 = 0)
         IN  Rat(k, 100)

ReportedCities == {report[i].city : i \in DOMAIN report}

SixCitiesReport ==
    <<[city |-> "F", temp |-> Num(40)], [city |-> "A", temp |-> Num(30)],
      [city |-> "C", temp |-> Num(28)], [city |-> "B", temp |-> Num(25)],
      [city |-> "D", temp |-> Num(10)]>>

(* C8: generate_city_temperature_report returns min(5, number of cities)   *)
(* (city, mean) pairs of distinct cities, each mean the mean of the city's *)
(* temperature_celsius over the cleaned dataset, in non-increasing order   *)
(* of mean, no city left out having a mean greater than a city included;   *)
(* the means A:30, B:25, C:28, D:10, E:5, F:40 give F, A, C, B, D.         *)
C8_ReportOfCityMeans ==
    pc = "done" =>
        LET cities == {df[i].city : i \in DOMAIN df}
            m(c) == MeanOfPresent(df, "temperature_celsius", c)
        IN  /\ Len(report) = (IF Cardinality(cities) < 5 THEN Cardinality(cities) ELSE 5)
            /\ Cardinality(ReportedCities) = Len(report)
            /\ \A i \in DOMAIN report :
                  /\ report[i].city \in cities
                  /\ report[i].temp = m(report[i].city)
            /\ \A i, j \in DOMAIN report :
                  i < j => ~RGreater(report[j].temp, report[i].temp)
            /\ \A c \in cities \ ReportedCities : \A i \in DOMAIN report :
                  ~RGreater(m(c), m(report[i].city))
            /\ (run = 1 /\ hist[1] = SixCities) => report = SixCitiesReport

(* C8 as amended: the same with each mean the mean of the city's           *)
(* temperature_celsius rounded to two decimals (missing when the city has  *)
(* no temperature), the order and the cities left out being those of the   *)
(* rounded means.                                                          *)
C8_ReportOfRoundedCityMeans ==
    pc = "done" =>
        LET cities == {df[i].city : i \in DOMAIN df}
            m(c) == NearestHundredth(MeanOfPresent(df, "temperature_celsius", c))
        IN  /\ Len(report) = (IF Cardinality(cities) < 5 THEN Cardinality(cities) ELSE 5)
            /\ Cardinality(ReportedCities) = Len(report)
            /\ \A i \in DOMAIN report :
                  /\ report[i].city \in cities
                  /\ report[i].temp = m(report[i].city)
            /\ \A i, j \in DOMAIN report :
                  i < j => ~RGreater(report[j].temp, report[i].temp)
            /\ \A c \in cities \ ReportedCities : \A i \in DOMAIN report :
                  ~RGreater(m(c), m(report[i].city))
            /\ (run = 1 /\ hist[1] = SixCities) => report = SixCitiesReport

\* The report of a dataset of six cities or more, with a city in it whose
\* mean is not a number of two decimals.
C8_Witness ==
    /\ pc = "done"
    /\ run = 1
    /\ Cardinality({df[i].city : i \in DOMAIN df}) > 5
    /\ Len(report) = 5
    /\ \E i \in DOMAIN report :
          report[i].temp # MeanOfPresent(df, "temperature_celsius", report[i].city)

\* A numeric field that no record holds.
Degenerate(d) == Len(d) > 0 /\ \E col \in NumericColumns : ~Present(d, col)

(* C9: a run on a dataset in which a numeric field has no value at all     *)
(* does not complete as a successful run (it surfaces DegenerateField),    *)
(* and a run ends in an error for no other input.                          *)
C9_DegenerateFieldSurfaced ==
    /\ (pc = "done" /\ Degenerate(hist[3])) => status # "success"
    /\ status = "error" => Degenerate(df)

(* C10: after each stage the records are an order-preserving subsequence   *)
(* of the stage's input (same index labels and cities); a record dropped   *)
(* is in no later stage; handle_missing_values, add_fahrenheit_column and  *)
(* round_numeric_columns keep the number of records and every record's     *)
(* city, date and weather_condition.                                       *)
C10_OnlyShrinksNeverReorders ==
    /\ df = hist[Len(hist)]
    /\ \A k \in 1..(Len(hist) - 1) :
          LET a == hist[k]
              b == hist[k + 1]
          IN  /\ \A j \in DOMAIN b :
                    /\ b[j].idx \in Labels(a)
                    /\ RowAt(a, b[j].idx).city = b[j].city
              /\ \A i, j \in DOMAIN b :
                    i < j => PosOf(a, b[i].idx) < PosOf(a, b[j].idx)
              /\ k + 1 >= 4 =>
                    /\ Len(b) = Len(a)
                    /\ \A j \in DOMAIN b :
                          /\ b[j].idx = a[j].idx
                          /\ b[j].city = a[j].city
                          /\ b[j].date = a[j].date
                          /\ b[j].weather_condition = a[j].weather_condition
    /\ \A k, l \in DOMAIN hist : k < l => Labels(hist[l]) \subseteq Labels(hist[k])

\* The five stages have run on three records of which clean_dates dropped
\* one and clean_weather_conditions dropped another, and the imputation or
\* the rounding changed the record that is left.
C10_Witness ==
    /\ pc = "rounded"
    /\ run = 1
    /\ Len(hist[1]) = 3
    /\ Len(hist[2]) = 2
    /\ Len(hist[3]) = 1
    /\ hist[3][1].idx = 1
    /\ Cells(hist[6]) # Cells(add_fahrenheit_column(hist[3]))

====
